---- MODULE Spec2Model ----
(***************************************************************************)
(* Attribute access of geometry components                                 *)
(* (source/blender/blenkernel/intern/attribute_access.cc).                 *)
(*                                                                         *)
(* The state is one geometry component (a MeshComponent or a               *)
(* PointCloudComponent) with the geometry it points to, plus the record of *)
(* the last call made on it: its name, its arguments, what it returned and *)
(* the component as it was before the call.  Pointers are sequences of     *)
(* length at most one: <<>> is nullptr, <<x>> points to x.  Indices passed *)
(* to get/set are 0-based as in the code; sequences are 1-based.           *)
(***************************************************************************)
EXTENDS Integers, Sequences, FiniteSets, TLC

\* Bounds of the model.
MaxVal == 1
MaxElems == 2
MaxCalls == 2

\* Element values (floats, vectors, ints, colours alike) are drawn from a
\* small set; 0 is the value CD_DEFAULT initialises a new layer with.
Values == 0 .. MaxVal
DefaultValue == 0

ATTR_DOMAIN_POINT == "ATTR_DOMAIN_POINT"
ATTR_DOMAIN_VERTEX == "ATTR_DOMAIN_VERTEX"
ATTR_DOMAIN_EDGE == "ATTR_DOMAIN_EDGE"
ATTR_DOMAIN_CORNER == "ATTR_DOMAIN_CORNER"
ATTR_DOMAIN_POLYGON == "ATTR_DOMAIN_POLYGON"
AttributeDomain ==
  {ATTR_DOMAIN_POINT, ATTR_DOMAIN_VERTEX, ATTR_DOMAIN_EDGE, ATTR_DOMAIN_CORNER,
   ATTR_DOMAIN_POLYGON}

CD_PROP_FLOAT == "CD_PROP_FLOAT"
CD_PROP_FLOAT2 == "CD_PROP_FLOAT2"
CD_PROP_FLOAT3 == "CD_PROP_FLOAT3"
CD_PROP_INT32 == "CD_PROP_INT32"
CD_PROP_COLOR == "CD_PROP_COLOR"
\* A layer type that is no attribute type (UV maps live in such layers).
CD_MLOOPUV == "CD_MLOOPUV"
CustomDataType ==
  {CD_PROP_FLOAT, CD_PROP_FLOAT2, CD_PROP_FLOAT3, CD_PROP_INT32, CD_PROP_COLOR,
   CD_MLOOPUV}

nullptr == "nullptr"

custom_data_type_to_cpp_type(type) ==
  CASE type = CD_PROP_FLOAT -> "float"
    [] type = CD_PROP_FLOAT2 -> "float2"
    [] type = CD_PROP_FLOAT3 -> "float3"
    [] type = CD_PROP_INT32 -> "int"
    [] type = CD_PROP_COLOR -> "Color4f"
    [] OTHER -> nullptr

Min(S) == CHOOSE x \in S : \A y \in S : x <= y

(***************************************************************************)
(* Attribute accessors.  A handle is a view: it names the storage it reads *)
(* (a layer of a CustomData, the vertex array, the deform-vertex array, or *)
(* its own constant) and carries domain, type and size.  An empty          *)
(* ReadAttributePtr / WriteAttributePtr is NoAttribute.                    *)
(***************************************************************************)
NoAttribute ==
  [class |-> "none", writable |-> FALSE, domain |-> "none", cpp_type |-> nullptr,
   size |-> 0, custom_data |-> "none", layer |-> 0, dvert_index |-> -1, value |-> 0]

ArrayReadAttribute(domain, cpp_type, size, custom_data, layer) ==
  [NoAttribute EXCEPT !.class = "Array", !.domain = domain, !.cpp_type = cpp_type,
                      !.size = size, !.custom_data = custom_data, !.layer = layer]

ArrayWriteAttribute(domain, cpp_type, size, custom_data, layer) ==
  [ArrayReadAttribute(domain, cpp_type, size, custom_data, layer)
     EXCEPT !.writable = TRUE]

DerivedArrayReadAttribute(domain, size) ==
  [NoAttribute EXCEPT !.class = "DerivedArray", !.domain = domain,
                      !.cpp_type = "float3", !.size = size]

DerivedArrayWriteAttribute(domain, size) ==
  [DerivedArrayReadAttribute(domain, size) EXCEPT !.writable = TRUE]

VertexWeightReadAttribute(totvert, dvert_index) ==
  [NoAttribute EXCEPT !.class = "VertexWeight", !.domain = ATTR_DOMAIN_VERTEX,
                      !.cpp_type = "float", !.size = totvert,
                      !.dvert_index = dvert_index]

VertexWeightWriteAttribute(totvert, dvert_index) ==
  [VertexWeightReadAttribute(totvert, dvert_index) EXCEPT !.writable = TRUE]

ConstantReadAttribute(domain, size, type, value) ==
  [NoAttribute EXCEPT !.class = "Constant", !.domain = domain, !.cpp_type = type,
                      !.size = size, !.value = value]

\* The geometry a component points to, or an empty record of the same shape.
Geometry(self) ==
  IF self.component = "MeshComponent" THEN self.mesh_ ELSE self.pointcloud_

\* A get_internal that reads the first entry of the vertex, of whatever group.
VertexWeight_get_internal_AnyGroup(dverts, dvert_index, index) ==
  LET dvert == dverts[index + 1]
  IN  IF Len(dvert) = 0 THEN 0 ELSE dvert[1].weight

\* VertexWeightWriteAttribute::get_internal (static): the weight of the first
\* entry of the vertex for the group, 0.0f when there is none.
VertexWeight_get_internal(dverts, dvert_index, index) ==
  LET dvert == dverts[index + 1]
      hits == {k \in 1 .. Len(dvert) : dvert[k].def_nr = dvert_index}
  IN  IF hits = {} THEN 0 ELSE dvert[Min(hits)].weight

\* MDeformWeight *BKE_defvert_find_index(dvert, defgroup): position of the
\* first entry for the group, 0 for NULL.
BKE_defvert_find_index(dvert, defgroup) ==
  LET hits == {k \in 1 .. Len(dvert) : dvert[k].def_nr = defgroup}
  IN  IF hits = {} THEN 0 ELSE Min(hits)

\* BKE_defvert_ensure_index(dvert, defgroup): the entry for the group, added
\* with weight 0 at the end of the list when the vertex has none.
BKE_defvert_ensure_index(dvert, defgroup) ==
  IF BKE_defvert_find_index(dvert, defgroup) # 0
    THEN dvert
    ELSE Append(dvert, [def_nr |-> defgroup, weight |-> 0])

\* BKE_defvert_remove_group(dvert, dw): drops the entry at position dw; a
\* NULL dw leaves the list alone.
BKE_defvert_remove_group(dvert, dw) ==
  IF dw = 0 THEN dvert
  ELSE [k \in 1 .. Len(dvert) - 1 |-> IF k < dw THEN dvert[k] ELSE dvert[k + 1]]

\* ReadAttribute::get_internal, by class of the accessor.
get_internal(self, attribute, index) ==
  CASE attribute.class = "Array" ->
         Geometry(self)[1][attribute.custom_data][attribute.layer].data[index + 1]
    [] attribute.class = "DerivedArray" ->
         self.mesh_[1].mvert[index + 1].co
    [] attribute.class = "VertexWeight" ->
         VertexWeight_get_internal(self.mesh_[1].dvert, attribute.dvert_index, index)
    [] attribute.class = "Constant" -> attribute.value

\* WriteAttribute::set_internal, by class of the accessor: the component
\* with the element written.
ArrayWriteAttribute_set_internal(self, attribute, index, value) ==
  IF self.component = "MeshComponent"
    THEN [self EXCEPT
            !.mesh_[1][attribute.custom_data][attribute.layer].data[index + 1] = value]
    ELSE [self EXCEPT
            !.pointcloud_[1][attribute.custom_data][attribute.layer].data[index + 1] =
              value]

\* A set_internal that stores a new vertex record made of the value alone.
DerivedArrayWriteAttribute_set_internal_WholeRecord(self, attribute, index, value) ==
  [self EXCEPT !.mesh_[1].mvert[index + 1] = [co |-> value, flag |-> 0]]

DerivedArrayWriteAttribute_set_internal(self, attribute, index, value) ==
  [self EXCEPT !.mesh_[1].mvert[index + 1].co = value]

\* A set_internal that adds a weight entry without looking for the one the
\* vertex has.
VertexWeightWriteAttribute_set_internal_Appends(self, attribute, index, value) ==
  [self EXCEPT !.mesh_[1].dvert[index + 1] =
                 Append(self.mesh_[1].dvert[index + 1],
                        [def_nr |-> attribute.dvert_index, weight |-> value])]

VertexWeightWriteAttribute_set_internal(self, attribute, index, value) ==
  LET dvert == BKE_defvert_ensure_index(self.mesh_[1].dvert[index + 1],
                                        attribute.dvert_index)
      weight == BKE_defvert_find_index(dvert, attribute.dvert_index)
  IN  [self EXCEPT !.mesh_[1].dvert[index + 1] =
                     [dvert EXCEPT ![weight].weight = value]]

set_internal(self, attribute, index, value) ==
  CASE attribute.class = "Array" ->
         ArrayWriteAttribute_set_internal(self, attribute, index, value)
    [] attribute.class = "DerivedArray" ->
         DerivedArrayWriteAttribute_set_internal(self, attribute, index, value)
    [] attribute.class = "VertexWeight" ->
         VertexWeightWriteAttribute_set_internal(self, attribute, index, value)

(***************************************************************************)
(* CustomData: the layers of one domain, in order.  A layer is             *)
(* [name, type, data]; data has one element per element of the domain.     *)
(***************************************************************************)
\* CustomData_add_layer_named(data, type, CD_DEFAULT, nullptr, totelem, name)
CustomData_add_layer_named(custom_data, type, totelem, name) ==
  Append(custom_data,
         [name |-> name, type |-> type, data |-> [i \in 1 .. totelem |-> DefaultValue]])

\* CustomData_free_layer(data, type, totelem, index), index 1-based here.
CustomData_free_layer(custom_data, index) ==
  [k \in 1 .. Len(custom_data) - 1 |->
     IF k < index THEN custom_data[k] ELSE custom_data[k + 1]]

\* The layer types the switch of read/write_attribute_from_custom_data has a
\* case for.
AttributeLayerTypes ==
  {CD_PROP_FLOAT, CD_PROP_FLOAT2, CD_PROP_FLOAT3, CD_PROP_INT32, CD_PROP_COLOR}

\* A lookup that takes the first layer with the name, whatever its type.
read_attribute_from_custom_data_AnyType(geometry, custom_data, size, attribute_name, domain) ==
  LET layers == geometry[custom_data]
      hits == {k \in 1 .. Len(layers) : layers[k].name = attribute_name}
  IN  IF hits = {} THEN NoAttribute
      ELSE ArrayReadAttribute(domain,
                              custom_data_type_to_cpp_type(layers[Min(hits)].type),
                              size, custom_data, Min(hits))

\* The first layer with the name whose type the switch returns for; a layer
\* of another type is passed over and the loop goes on.
read_attribute_from_custom_data(geometry, custom_data, size, attribute_name, domain) ==
  LET layers == geometry[custom_data]
      hits == {k \in 1 .. Len(layers) :
                 /\ layers[k].name = attribute_name
                 /\ layers[k].type \in AttributeLayerTypes}
  IN  IF hits = {} THEN NoAttribute
      ELSE ArrayReadAttribute(domain,
                              custom_data_type_to_cpp_type(layers[Min(hits)].type),
                              size, custom_data, Min(hits))

write_attribute_from_custom_data(geometry, custom_data, size, attribute_name, domain) ==
  LET layers == geometry[custom_data]
      hits == {k \in 1 .. Len(layers) :
                 /\ layers[k].name = attribute_name
                 /\ layers[k].type \in AttributeLayerTypes}
  IN  IF hits = {} THEN NoAttribute
      ELSE ArrayWriteAttribute(domain,
                               custom_data_type_to_cpp_type(layers[Min(hits)].type),
                               size, custom_data, Min(hits))

\* A delete that passes over layers of other than attribute types, as the
\* lookups do.
delete_named_custom_data_layer_AttributeTypes(custom_data, attribute_name) ==
  LET hits == {k \in 1 .. Len(custom_data) :
                 /\ custom_data[k].name = attribute_name
                 /\ custom_data[k].type \in AttributeLayerTypes}
  IN  IF hits = {} THEN [ret |-> FALSE, custom_data |-> custom_data]
      ELSE [ret |-> TRUE, custom_data |-> CustomData_free_layer(custom_data, Min(hits))]

\* Frees the first layer with the name, whatever its type.  Returns whether
\* one was found, and the layers left.
delete_named_custom_data_layer(custom_data, attribute_name) ==
  LET hits == {k \in 1 .. Len(custom_data) : custom_data[k].name = attribute_name}
  IN  IF hits = {} THEN [ret |-> FALSE, custom_data |-> custom_data]
      ELSE [ret |-> TRUE, custom_data |-> CustomData_free_layer(custom_data, Min(hits))]

\* A check that passes over layers of other than attribute types, as the
\* lookups do.
custom_data_has_layer_with_name_AttributeTypes(custom_data, name) ==
  \E k \in 1 .. Len(custom_data) :
    custom_data[k].name = name /\ custom_data[k].type \in AttributeLayerTypes

\* A loop that gives up after the first layer.
custom_data_has_layer_with_name_FirstOnly(custom_data, name) ==
  Len(custom_data) > 0 /\ custom_data[1].name = name

custom_data_has_layer_with_name(custom_data, name) ==
  \E k \in 1 .. Len(custom_data) : custom_data[k].name = name

(***************************************************************************)
(* PointCloudComponent                                                     *)
(***************************************************************************)
PointCloudComponent_attribute_domain_supported(domain) ==
  domain = ATTR_DOMAIN_POINT

PointCloudComponent_attribute_domain_with_type_supported(domain, data_type) ==
  /\ domain = ATTR_DOMAIN_POINT
  /\ data_type \in {CD_PROP_FLOAT, CD_PROP_FLOAT2, CD_PROP_FLOAT3, CD_PROP_INT32,
                    CD_PROP_COLOR}

PointCloudComponent_attribute_domain_size(self, domain) ==
  IF self.pointcloud_ = <<>> THEN 0 ELSE self.pointcloud_[1].totpoint

PointCloudComponent_attribute_is_builtin(attribute_name) ==
  attribute_name = "Position"

PointCloudComponent_attribute_try_get_for_read(self, attribute_name) ==
  IF self.pointcloud_ = <<>> THEN NoAttribute
  ELSE read_attribute_from_custom_data(self.pointcloud_[1], "pdata",
                                       self.pointcloud_[1].totpoint, attribute_name,
                                       ATTR_DOMAIN_POINT)

\* get_for_write() hands out the component's own geometry (after making it
\* unshared), nullptr when the component has none.
PointCloudComponent_get_for_write(self) == self.pointcloud_

PointCloudComponent_attribute_try_get_for_write(self, attribute_name) ==
  LET pointcloud == PointCloudComponent_get_for_write(self)
  IN  IF pointcloud = <<>> THEN NoAttribute
      ELSE write_attribute_from_custom_data(pointcloud[1], "pdata",
                                            pointcloud[1].totpoint, attribute_name,
                                            ATTR_DOMAIN_POINT)

\* Returns [ret, self]: the bool the call returns and the component after it.
PointCloudComponent_attribute_try_delete(self, attribute_name) ==
  LET pointcloud == PointCloudComponent_get_for_write(self)
  IN  IF PointCloudComponent_attribute_is_builtin(attribute_name)
        THEN [ret |-> FALSE, self |-> self]
      ELSE IF pointcloud = <<>>
        THEN [ret |-> FALSE, self |-> self]
      ELSE [ret |-> TRUE,
            self |-> [self EXCEPT !.pointcloud_[1].pdata =
                        delete_named_custom_data_layer(pointcloud[1].pdata,
                                                       attribute_name).custom_data]]

\* A create that adds a layer without elements.
PointCloudComponent_attribute_try_create_Empty(self, attribute_name, domain, data_type) ==
  LET pointcloud == PointCloudComponent_get_for_write(self)
  IN  IF PointCloudComponent_attribute_is_builtin(attribute_name)
        THEN [ret |-> FALSE, self |-> self]
      ELSE IF ~PointCloudComponent_attribute_domain_with_type_supported(domain, data_type)
        THEN [ret |-> FALSE, self |-> self]
      ELSE IF pointcloud = <<>>
        THEN [ret |-> FALSE, self |-> self]
      ELSE IF custom_data_has_layer_with_name(pointcloud[1].pdata, attribute_name)
        THEN [ret |-> FALSE, self |-> self]
      ELSE [ret |-> TRUE,
            self |-> [self EXCEPT !.pointcloud_[1].pdata =
                        CustomData_add_layer_named(pointcloud[1].pdata, data_type, 0,
                                                   attribute_name)]]

PointCloudComponent_attribute_try_create(self, attribute_name, domain, data_type) ==
  LET pointcloud == PointCloudComponent_get_for_write(self)
  IN  IF PointCloudComponent_attribute_is_builtin(attribute_name)
        THEN [ret |-> FALSE, self |-> self]
      ELSE IF ~PointCloudComponent_attribute_domain_with_type_supported(domain, data_type)
        THEN [ret |-> FALSE, self |-> self]
      ELSE IF pointcloud = <<>>
        THEN [ret |-> FALSE, self |-> self]
      ELSE IF custom_data_has_layer_with_name(pointcloud[1].pdata, attribute_name)
        THEN [ret |-> FALSE, self |-> self]
      ELSE [ret |-> TRUE,
            self |-> [self EXCEPT !.pointcloud_[1].pdata =
                        CustomData_add_layer_named(pointcloud[1].pdata, data_type,
                                                   self.pointcloud_[1].totpoint,
                                                   attribute_name)]]

(***************************************************************************)
(* MeshComponent                                                           *)
(***************************************************************************)
MeshComponent_attribute_domain_supported(domain) ==
  domain \in {ATTR_DOMAIN_CORNER, ATTR_DOMAIN_VERTEX, ATTR_DOMAIN_EDGE,
              ATTR_DOMAIN_POLYGON}

MeshComponent_attribute_domain_with_type_supported(domain, data_type) ==
  IF ~MeshComponent_attribute_domain_supported(domain) THEN FALSE
  ELSE data_type \in {CD_PROP_FLOAT, CD_PROP_FLOAT2, CD_PROP_FLOAT3, CD_PROP_INT32,
                      CD_PROP_COLOR}

\* A size that is the number of vertices for every domain.
MeshComponent_attribute_domain_size_Verts(self, domain) ==
  IF self.mesh_ = <<>> THEN 0 ELSE self.mesh_[1].totvert

MeshComponent_attribute_domain_size(self, domain) ==
  IF self.mesh_ = <<>> THEN 0
  ELSE CASE domain = ATTR_DOMAIN_CORNER -> self.mesh_[1].totloop
         [] domain = ATTR_DOMAIN_VERTEX -> self.mesh_[1].totvert
         [] domain = ATTR_DOMAIN_EDGE -> self.mesh_[1].totedge
         [] domain = ATTR_DOMAIN_POLYGON -> self.mesh_[1].totpoly
         [] OTHER -> 0

\* A mesh component that knows no built-in attribute.
MeshComponent_attribute_is_builtin_None(attribute_name) == FALSE

\* A mesh component that spells its built-in attribute in lower case.
MeshComponent_attribute_is_builtin_LowerCase(attribute_name) ==
  attribute_name = "position"

MeshComponent_attribute_is_builtin(attribute_name) ==
  attribute_name = "Position"

\* vertex_group_names_.lookup_default(name, -1)
lookup_default(vertex_group_names, attribute_name, default) ==
  IF attribute_name \in DOMAIN vertex_group_names
    THEN vertex_group_names[attribute_name]
    ELSE default

\* vertex_group_names_.remove_as(name)
remove_as(vertex_group_names, attribute_name) ==
  [n \in DOMAIN vertex_group_names \ {attribute_name} |-> vertex_group_names[n]]

\* A lookup without the case for "Position".
MeshComponent_attribute_try_get_for_read_NoPosition(self, attribute_name) ==
  IF self.mesh_ = <<>> THEN NoAttribute
  ELSE
    LET mesh == self.mesh_[1]
        corner_attribute ==
          read_attribute_from_custom_data(mesh, "ldata", mesh.totloop, attribute_name,
                                          ATTR_DOMAIN_CORNER)
        vertex_group_index == lookup_default(self.vertex_group_names_, attribute_name, -1)
        vertex_attribute ==
          read_attribute_from_custom_data(mesh, "vdata", mesh.totvert, attribute_name,
                                          ATTR_DOMAIN_VERTEX)
        edge_attribute ==
          read_attribute_from_custom_data(mesh, "edata", mesh.totedge, attribute_name,
                                          ATTR_DOMAIN_EDGE)
        polygon_attribute ==
          read_attribute_from_custom_data(mesh, "pdata", mesh.totpoly, attribute_name,
                                          ATTR_DOMAIN_POLYGON)
    IN  IF corner_attribute # NoAttribute THEN corner_attribute
        ELSE IF vertex_group_index >= 0
          THEN VertexWeightReadAttribute(mesh.totvert, vertex_group_index)
        ELSE IF vertex_attribute # NoAttribute THEN vertex_attribute
        ELSE IF edge_attribute # NoAttribute THEN edge_attribute
        ELSE IF polygon_attribute # NoAttribute THEN polygon_attribute
        ELSE NoAttribute

\* A lookup that tries the vertex groups before the corner layers.
MeshComponent_attribute_try_get_for_read_GroupFirst(self, attribute_name) ==
  IF self.mesh_ = <<>> THEN NoAttribute
  ELSE
    LET mesh == self.mesh_[1]
        corner_attribute ==
          read_attribute_from_custom_data(mesh, "ldata", mesh.totloop, attribute_name,
                                          ATTR_DOMAIN_CORNER)
        vertex_group_index == lookup_default(self.vertex_group_names_, attribute_name, -1)
        vertex_attribute ==
          read_attribute_from_custom_data(mesh, "vdata", mesh.totvert, attribute_name,
                                          ATTR_DOMAIN_VERTEX)
        edge_attribute ==
          read_attribute_from_custom_data(mesh, "edata", mesh.totedge, attribute_name,
                                          ATTR_DOMAIN_EDGE)
        polygon_attribute ==
          read_attribute_from_custom_data(mesh, "pdata", mesh.totpoly, attribute_name,
                                          ATTR_DOMAIN_POLYGON)
    IN  IF attribute_name = "Position"
          THEN DerivedArrayReadAttribute(ATTR_DOMAIN_VERTEX, mesh.totvert)
        ELSE IF vertex_group_index >= 0
          THEN VertexWeightReadAttribute(mesh.totvert, vertex_group_index)
        ELSE IF corner_attribute # NoAttribute THEN corner_attribute
        ELSE IF vertex_attribute # NoAttribute THEN vertex_attribute
        ELSE IF edge_attribute # NoAttribute THEN edge_attribute
        ELSE IF polygon_attribute # NoAttribute THEN polygon_attribute
        ELSE NoAttribute

MeshComponent_attribute_try_get_for_read(self, attribute_name) ==
  IF self.mesh_ = <<>> THEN NoAttribute
  ELSE
    LET mesh == self.mesh_[1]
        corner_attribute ==
          read_attribute_from_custom_data(mesh, "ldata", mesh.totloop, attribute_name,
                                          ATTR_DOMAIN_CORNER)
        vertex_group_index == lookup_default(self.vertex_group_names_, attribute_name, -1)
        vertex_attribute ==
          read_attribute_from_custom_data(mesh, "vdata", mesh.totvert, attribute_name,
                                          ATTR_DOMAIN_VERTEX)
        edge_attribute ==
          read_attribute_from_custom_data(mesh, "edata", mesh.totedge, attribute_name,
                                          ATTR_DOMAIN_EDGE)
        polygon_attribute ==
          read_attribute_from_custom_data(mesh, "pdata", mesh.totpoly, attribute_name,
                                          ATTR_DOMAIN_POLYGON)
    IN  IF attribute_name = "Position"
          THEN DerivedArrayReadAttribute(ATTR_DOMAIN_VERTEX, mesh.totvert)
        ELSE IF corner_attribute # NoAttribute THEN corner_attribute
        ELSE IF vertex_group_index >= 0
          THEN VertexWeightReadAttribute(mesh.totvert, vertex_group_index)
        ELSE IF vertex_attribute # NoAttribute THEN vertex_attribute
        ELSE IF edge_attribute # NoAttribute THEN edge_attribute
        ELSE IF polygon_attribute # NoAttribute THEN polygon_attribute
        ELSE NoAttribute

MeshComponent_get_for_write(self) == self.mesh_

\* A lookup for write that tries the vertex groups before the corner layers.
MeshComponent_attribute_try_get_for_write_GroupFirst(self, attribute_name) ==
  IF MeshComponent_get_for_write(self) = <<>> THEN NoAttribute
  ELSE
    LET mesh == self.mesh_[1]
        corner_attribute ==
          write_attribute_from_custom_data(mesh, "ldata", mesh.totloop, attribute_name,
                                           ATTR_DOMAIN_CORNER)
        vertex_group_index == lookup_default(self.vertex_group_names_, attribute_name, -1)
        vertex_attribute ==
          write_attribute_from_custom_data(mesh, "vdata", mesh.totvert, attribute_name,
                                           ATTR_DOMAIN_VERTEX)
        edge_attribute ==
          write_attribute_from_custom_data(mesh, "edata", mesh.totedge, attribute_name,
                                           ATTR_DOMAIN_EDGE)
        polygon_attribute ==
          write_attribute_from_custom_data(mesh, "pdata", mesh.totpoly, attribute_name,
                                           ATTR_DOMAIN_POLYGON)
    IN  IF attribute_name = "Position"
          THEN DerivedArrayWriteAttribute(ATTR_DOMAIN_VERTEX, mesh.totvert)
        ELSE IF vertex_group_index >= 0
          THEN VertexWeightWriteAttribute(mesh.totvert, vertex_group_index)
        ELSE IF corner_attribute # NoAttribute THEN corner_attribute
        ELSE IF vertex_attribute # NoAttribute THEN vertex_attribute
        ELSE IF edge_attribute # NoAttribute THEN edge_attribute
        ELSE IF polygon_attribute # NoAttribute THEN polygon_attribute
        ELSE NoAttribute

MeshComponent_attribute_try_get_for_write(self, attribute_name) ==
  IF MeshComponent_get_for_write(self) = <<>> THEN NoAttribute
  ELSE
    LET mesh == self.mesh_[1]
        corner_attribute ==
          write_attribute_from_custom_data(mesh, "ldata", mesh.totloop, attribute_name,
                                           ATTR_DOMAIN_CORNER)
        vertex_group_index == lookup_default(self.vertex_group_names_, attribute_name, -1)
        vertex_attribute ==
          write_attribute_from_custom_data(mesh, "vdata", mesh.totvert, attribute_name,
                                           ATTR_DOMAIN_VERTEX)
        edge_attribute ==
          write_attribute_from_custom_data(mesh, "edata", mesh.totedge, attribute_name,
                                           ATTR_DOMAIN_EDGE)
        polygon_attribute ==
          write_attribute_from_custom_data(mesh, "pdata", mesh.totpoly, attribute_name,
                                           ATTR_DOMAIN_POLYGON)
    IN  IF attribute_name = "Position"
          THEN DerivedArrayWriteAttribute(ATTR_DOMAIN_VERTEX, mesh.totvert)
        ELSE IF corner_attribute # NoAttribute THEN corner_attribute
        ELSE IF vertex_group_index >= 0
          THEN VertexWeightWriteAttribute(mesh.totvert, vertex_group_index)
        ELSE IF vertex_attribute # NoAttribute THEN vertex_attribute
        ELSE IF edge_attribute # NoAttribute THEN edge_attribute
        ELSE IF polygon_attribute # NoAttribute THEN polygon_attribute
        ELSE NoAttribute

\* A delete that reports whether it found anything to delete.
MeshComponent_attribute_try_delete_Reports(self, attribute_name) ==
  IF MeshComponent_attribute_is_builtin(attribute_name)
    THEN [ret |-> FALSE, self |-> self]
  ELSE IF MeshComponent_get_for_write(self) = <<>>
    THEN [ret |-> FALSE, self |-> self]
  ELSE
    LET mesh == self.mesh_[1]
        vertex_group_index == lookup_default(self.vertex_group_names_, attribute_name, -1)
        l == delete_named_custom_data_layer(mesh.ldata, attribute_name)
        v == delete_named_custom_data_layer(mesh.vdata, attribute_name)
        e == delete_named_custom_data_layer(mesh.edata, attribute_name)
        p == delete_named_custom_data_layer(mesh.pdata, attribute_name)
        layers_deleted ==
          [mesh EXCEPT !.ldata = l.custom_data, !.vdata = v.custom_data,
                       !.edata = e.custom_data, !.pdata = p.custom_data]
        found == l.ret \/ v.ret \/ e.ret \/ p.ret \/ vertex_group_index # -1
    IN  IF vertex_group_index # -1
          THEN [ret |-> found,
                self |-> [self EXCEPT
                  !.mesh_ =
                    <<[layers_deleted EXCEPT
                         !.dvert =
                           [w \in 1 .. Len(mesh.dvert) |->
                              BKE_defvert_remove_group(
                                mesh.dvert[w],
                                BKE_defvert_find_index(mesh.dvert[w],
                                                       vertex_group_index))]]>>,
                  !.vertex_group_names_ =
                    remove_as(self.vertex_group_names_, attribute_name)]]
          ELSE [ret |-> found, self |-> [self EXCEPT !.mesh_ = <<layers_deleted>>]]

MeshComponent_attribute_try_delete(self, attribute_name) ==
  IF MeshComponent_attribute_is_builtin(attribute_name)
    THEN [ret |-> FALSE, self |-> self]
  ELSE IF MeshComponent_get_for_write(self) = <<>>
    THEN [ret |-> FALSE, self |-> self]
  ELSE
    LET mesh == self.mesh_[1]
        vertex_group_index == lookup_default(self.vertex_group_names_, attribute_name, -1)
        layers_deleted ==
          [mesh EXCEPT
             !.ldata = delete_named_custom_data_layer(mesh.ldata, attribute_name).custom_data,
             !.vdata = delete_named_custom_data_layer(mesh.vdata, attribute_name).custom_data,
             !.edata = delete_named_custom_data_layer(mesh.edata, attribute_name).custom_data,
             !.pdata = delete_named_custom_data_layer(mesh.pdata, attribute_name).custom_data]
    IN  IF vertex_group_index # -1
          THEN [ret |-> TRUE,
                self |-> [self EXCEPT
                  !.mesh_ =
                    <<[layers_deleted EXCEPT
                         !.dvert =
                           [v \in 1 .. Len(mesh.dvert) |->
                              BKE_defvert_remove_group(
                                mesh.dvert[v],
                                BKE_defvert_find_index(mesh.dvert[v],
                                                       vertex_group_index))]]>>,
                  !.vertex_group_names_ =
                    remove_as(self.vertex_group_names_, attribute_name)]]
          ELSE [ret |-> TRUE, self |-> [self EXCEPT !.mesh_ = <<layers_deleted>>]]

\* A create that does not look at the vertex group names.
MeshComponent_attribute_try_create_NoGroupCheck(self, attribute_name, domain, data_type) ==
  IF MeshComponent_attribute_is_builtin(attribute_name)
    THEN [ret |-> FALSE, self |-> self]
  ELSE IF ~MeshComponent_attribute_domain_with_type_supported(domain, data_type)
    THEN [ret |-> FALSE, self |-> self]
  ELSE IF MeshComponent_get_for_write(self) = <<>>
    THEN [ret |-> FALSE, self |-> self]
  ELSE
    LET mesh == self.mesh_[1]
    IN  CASE domain = ATTR_DOMAIN_CORNER ->
               IF custom_data_has_layer_with_name(mesh.ldata, attribute_name)
                 THEN [ret |-> FALSE, self |-> self]
                 ELSE [ret |-> TRUE,
                       self |-> [self EXCEPT !.mesh_[1].ldata =
                         CustomData_add_layer_named(mesh.ldata, data_type, mesh.totloop,
                                                    attribute_name)]]
          [] domain = ATTR_DOMAIN_VERTEX ->
               IF custom_data_has_layer_with_name(mesh.vdata, attribute_name)
                 THEN [ret |-> FALSE, self |-> self]
                 ELSE [ret |-> TRUE,
                       self |-> [self EXCEPT !.mesh_[1].vdata =
                         CustomData_add_layer_named(mesh.vdata, data_type, mesh.totvert,
                                                    attribute_name)]]
          [] domain = ATTR_DOMAIN_EDGE ->
               IF custom_data_has_layer_with_name(mesh.edata, attribute_name)
                 THEN [ret |-> FALSE, self |-> self]
                 ELSE [ret |-> TRUE,
                       self |-> [self EXCEPT !.mesh_[1].edata =
                         CustomData_add_layer_named(mesh.edata, data_type, mesh.totedge,
                                                    attribute_name)]]
          [] domain = ATTR_DOMAIN_POLYGON ->
               IF custom_data_has_layer_with_name(mesh.pdata, attribute_name)
                 THEN [ret |-> FALSE, self |-> self]
                 ELSE [ret |-> TRUE,
                       self |-> [self EXCEPT !.mesh_[1].pdata =
                         CustomData_add_layer_named(mesh.pdata, data_type, mesh.totpoly,
                                                    attribute_name)]]
          [] OTHER -> [ret |-> FALSE, self |-> self]

MeshComponent_attribute_try_create(self, attribute_name, domain, data_type) ==
  IF MeshComponent_attribute_is_builtin(attribute_name)
    THEN [ret |-> FALSE, self |-> self]
  ELSE IF ~MeshComponent_attribute_domain_with_type_supported(domain, data_type)
    THEN [ret |-> FALSE, self |-> self]
  ELSE IF MeshComponent_get_for_write(self) = <<>>
    THEN [ret |-> FALSE, self |-> self]
  ELSE
    LET mesh == self.mesh_[1]
    IN  CASE domain = ATTR_DOMAIN_CORNER ->
               IF custom_data_has_layer_with_name(mesh.ldata, attribute_name)
                 THEN [ret |-> FALSE, self |-> self]
                 ELSE [ret |-> TRUE,
                       self |-> [self EXCEPT !.mesh_[1].ldata =
                         CustomData_add_layer_named(mesh.ldata, data_type, mesh.totloop,
                                                    attribute_name)]]
          [] domain = ATTR_DOMAIN_VERTEX ->
               IF custom_data_has_layer_with_name(mesh.vdata, attribute_name)
                 THEN [ret |-> FALSE, self |-> self]
               ELSE IF attribute_name \in DOMAIN self.vertex_group_names_
                 THEN [ret |-> FALSE, self |-> self]
                 ELSE [ret |-> TRUE,
                       self |-> [self EXCEPT !.mesh_[1].vdata =
                         CustomData_add_layer_named(mesh.vdata, data_type, mesh.totvert,
                                                    attribute_name)]]
          [] domain = ATTR_DOMAIN_EDGE ->
               IF custom_data_has_layer_with_name(mesh.edata, attribute_name)
                 THEN [ret |-> FALSE, self |-> self]
                 ELSE [ret |-> TRUE,
                       self |-> [self EXCEPT !.mesh_[1].edata =
                         CustomData_add_layer_named(mesh.edata, data_type, mesh.totedge,
                                                    attribute_name)]]
          [] domain = ATTR_DOMAIN_POLYGON ->
               IF custom_data_has_layer_with_name(mesh.pdata, attribute_name)
                 THEN [ret |-> FALSE, self |-> self]
                 ELSE [ret |-> TRUE,
                       self |-> [self EXCEPT !.mesh_[1].pdata =
                         CustomData_add_layer_named(mesh.pdata, data_type, mesh.totpoly,
                                                    attribute_name)]]
          [] OTHER -> [ret |-> FALSE, self |-> self]

(***************************************************************************)
(* GeometryComponent: the virtual calls, dispatched on the component's     *)
(* class, and the functions the base class implements on top of them.      *)
(***************************************************************************)
attribute_domain_with_type_supported(self, domain, data_type) ==
  IF self.component = "MeshComponent"
    THEN MeshComponent_attribute_domain_with_type_supported(domain, data_type)
    ELSE PointCloudComponent_attribute_domain_with_type_supported(domain, data_type)

attribute_domain_size(self, domain) ==
  IF self.component = "MeshComponent"
    THEN MeshComponent_attribute_domain_size(self, domain)
    ELSE PointCloudComponent_attribute_domain_size(self, domain)

attribute_is_builtin(self, attribute_name) ==
  IF self.component = "MeshComponent"
    THEN MeshComponent_attribute_is_builtin(attribute_name)
    ELSE PointCloudComponent_attribute_is_builtin(attribute_name)

attribute_try_get_for_read(self, attribute_name) ==
  IF self.component = "MeshComponent"
    THEN MeshComponent_attribute_try_get_for_read(self, attribute_name)
    ELSE PointCloudComponent_attribute_try_get_for_read(self, attribute_name)

attribute_try_get_for_write(self, attribute_name) ==
  IF self.component = "MeshComponent"
    THEN MeshComponent_attribute_try_get_for_write(self, attribute_name)
    ELSE PointCloudComponent_attribute_try_get_for_write(self, attribute_name)

attribute_try_delete(self, attribute_name) ==
  IF self.component = "MeshComponent"
    THEN MeshComponent_attribute_try_delete(self, attribute_name)
    ELSE PointCloudComponent_attribute_try_delete(self, attribute_name)

attribute_try_create(self, attribute_name, domain, data_type) ==
  IF self.component = "MeshComponent"
    THEN MeshComponent_attribute_try_create(self, attribute_name, domain, data_type)
    ELSE PointCloudComponent_attribute_try_create(self, attribute_name, domain, data_type)

\* An adaptation that hands back the attribute whatever its domain.
attribute_try_adapt_domain_Any(attribute, domain) == attribute

attribute_try_adapt_domain(attribute, domain) ==
  IF attribute # NoAttribute /\ attribute.domain = domain THEN attribute
  ELSE NoAttribute

\* attribute_try_get_for_read(attribute_name, domain, data_type)
attribute_try_get_for_read_typed(self, attribute_name, domain, data_type) ==
  LET attribute == attribute_try_get_for_read(self, attribute_name)
      adapted == IF attribute.domain # domain
                   THEN attribute_try_adapt_domain(attribute, domain)
                   ELSE attribute
      cpp_type == custom_data_type_to_cpp_type(data_type)
  IN  IF ~attribute_domain_with_type_supported(self, domain, data_type) THEN NoAttribute
      ELSE IF attribute = NoAttribute THEN NoAttribute
      ELSE IF adapted = NoAttribute THEN NoAttribute
      ELSE IF adapted.cpp_type # cpp_type THEN NoAttribute
      ELSE adapted

\* A lookup that takes the attribute found by name without comparing its
\* domain and type with the ones asked for.
attribute_get_for_read_Untyped(self, attribute_name, domain, data_type, default_value) ==
  LET attribute == attribute_try_get_for_read(self, attribute_name)
      cpp_type == custom_data_type_to_cpp_type(data_type)
      domain_size == attribute_domain_size(self, domain)
  IN  IF attribute # NoAttribute THEN attribute
      ELSE ConstantReadAttribute(domain, domain_size, cpp_type, default_value)

attribute_get_for_read(self, attribute_name, domain, data_type, default_value) ==
  LET attribute == attribute_try_get_for_read_typed(self, attribute_name, domain, data_type)
      cpp_type == custom_data_type_to_cpp_type(data_type)
      domain_size == attribute_domain_size(self, domain)
  IN  IF attribute # NoAttribute THEN attribute
      ELSE ConstantReadAttribute(domain, domain_size, cpp_type, default_value)

\* An ensure that takes the attribute found by name when its domain is the
\* one asked for, whatever its type.
attribute_try_ensure_for_write_DomainOnly(self, attribute_name, domain, data_type) ==
  LET attribute == attribute_try_get_for_write(self, attribute_name)
      deleted == IF attribute # NoAttribute
                   THEN attribute_try_delete(self, attribute_name)
                   ELSE [ret |-> TRUE, self |-> self]
      created == attribute_try_create(deleted.self, attribute_name, domain, data_type)
  IN  IF attribute # NoAttribute /\ attribute.domain = domain
        THEN [ret |-> attribute, self |-> self]
      ELSE IF ~deleted.ret
        THEN [ret |-> NoAttribute, self |-> deleted.self]
      ELSE IF ~attribute_domain_with_type_supported(self, domain, data_type)
        THEN [ret |-> NoAttribute, self |-> deleted.self]
      ELSE IF ~created.ret
        THEN [ret |-> NoAttribute, self |-> created.self]
      ELSE [ret |-> attribute_try_get_for_write(created.self, attribute_name),
            self |-> created.self]

\* An ensure that takes the attribute found by name when its type is the one
\* asked for, on whatever domain it is.
attribute_try_ensure_for_write_TypeOnly(self, attribute_name, domain, data_type) ==
  LET cpp_type == custom_data_type_to_cpp_type(data_type)
      attribute == attribute_try_get_for_write(self, attribute_name)
      deleted == IF attribute # NoAttribute
                   THEN attribute_try_delete(self, attribute_name)
                   ELSE [ret |-> TRUE, self |-> self]
      created == attribute_try_create(deleted.self, attribute_name, domain, data_type)
  IN  IF attribute # NoAttribute /\ attribute.cpp_type = cpp_type
        THEN [ret |-> attribute, self |-> self]
      ELSE IF ~deleted.ret
        THEN [ret |-> NoAttribute, self |-> deleted.self]
      ELSE IF ~attribute_domain_with_type_supported(self, domain, data_type)
        THEN [ret |-> NoAttribute, self |-> deleted.self]
      ELSE IF ~created.ret
        THEN [ret |-> NoAttribute, self |-> created.self]
      ELSE [ret |-> attribute_try_get_for_write(created.self, attribute_name),
            self |-> created.self]

\* Returns [ret, self]: the handle returned and the component after the call.
attribute_try_ensure_for_write(self, attribute_name, domain, data_type) ==
  LET cpp_type == custom_data_type_to_cpp_type(data_type)
      attribute == attribute_try_get_for_write(self, attribute_name)
      deleted == IF attribute # NoAttribute
                   THEN attribute_try_delete(self, attribute_name)
                   ELSE [ret |-> TRUE, self |-> self]
      created == attribute_try_create(deleted.self, attribute_name, domain, data_type)
  IN  IF /\ attribute # NoAttribute
         /\ attribute.domain = domain
         /\ attribute.cpp_type = cpp_type
        THEN [ret |-> attribute, self |-> self]
      ELSE IF ~deleted.ret
        THEN [ret |-> NoAttribute, self |-> deleted.self]
      ELSE IF ~attribute_domain_with_type_supported(self, domain, data_type)
        THEN [ret |-> NoAttribute, self |-> deleted.self]
      ELSE IF ~created.ret
        THEN [ret |-> NoAttribute, self |-> created.self]
      ELSE [ret |-> attribute_try_get_for_write(created.self, attribute_name),
            self |-> created.self]

(***************************************************************************)
(* State: the component, and the last call made on it.                     *)
(***************************************************************************)
VARIABLES component, mesh_, pointcloud_, vertex_group_names_, before, op, args, ret,
          handle, held, again, calls

vars ==
  <<component, mesh_, pointcloud_, vertex_group_names_, before, op, args, ret, handle,
    held, again, calls>>

\* The component object (this).
Self ==
  [component |-> component, mesh_ |-> mesh_, pointcloud_ |-> pointcloud_,
   vertex_group_names_ |-> vertex_group_names_]

\* Attribute names the callers use: the built-in, two names that are vertex
\* group of every mesh here, and a name that is one of some.
Names == {"Position", "Group", "size"}

\* The layer types the callers ask for: two attribute types and one that is
\* none.
DataTypes == {CD_PROP_FLOAT, CD_PROP_FLOAT3, CD_MLOOPUV}

\* The calls that leave the component as it is.
ConstCalls ==
  {"attribute_try_get_for_read", "attribute_try_get_for_read_typed",
   "attribute_get_for_read", "attribute_try_get_for_write"}

NoArgs ==
  [attribute_name |-> "", domain |-> "none", data_type |-> "none", index |-> 0,
   value |-> 0]

Layer(name, type, totelem) ==
  [name |-> name, type |-> type, data |-> [i \in 1 .. totelem |-> i % (MaxVal + 1)]]

MVerts(totvert) == [i \in 1 .. totvert |-> [co |-> i % (MaxVal + 1), flag |-> i]]

NoGroups == [n \in {} |-> 0]

\* A mesh with one vertex group and empty weight lists, no attribute layers.
MeshPlain ==
  [totvert |-> MaxElems, totloop |-> 1, totedge |-> 0, totpoly |-> 1,
   mvert |-> MVerts(MaxElems), dvert |-> [i \in 1 .. MaxElems |-> <<>>],
   ldata |-> <<>>, vdata |-> <<>>, edata |-> <<>>, pdata |-> <<>>]

\* A mesh with two vertex groups, weights on the first vertex, corner and
\* polygon layers called like the groups and an edge layer called like one.
MeshLayers ==
  [MeshPlain EXCEPT
     !.totedge = 1,
     !.dvert = [i \in 1 .. MaxElems |->
                  IF i = 1 THEN <<[def_nr |-> 1, weight |-> MaxVal],
                                  [def_nr |-> 0, weight |-> MaxVal]>>
                  ELSE <<>>],
     !.ldata = <<Layer("size", CD_PROP_FLOAT, 1)>>,
     !.edata = <<Layer("Group", CD_PROP_FLOAT3, 1)>>,
     !.pdata = <<Layer("size", CD_PROP_COLOR, 1), Layer("Group", CD_PROP_FLOAT, 1)>>]

\* A mesh whose corner layers hold a UV map called "size" and a float3 layer
\* with the name of the vertex group, and whose vertex layers hold an int
\* layer called "size".
MeshShadowed ==
  [MeshPlain EXCEPT
     !.dvert = [i \in 1 .. MaxElems |->
                  IF i = 1 THEN <<[def_nr |-> 0, weight |-> MaxVal]>> ELSE <<>>],
     !.ldata = <<Layer("size", CD_MLOOPUV, 1), Layer("Group", CD_PROP_FLOAT3, 1)>>,
     !.vdata = <<Layer("size", CD_PROP_INT32, MaxElems)>>]

\* A mesh whose only layer is a UV map called "size": a layer with that name,
\* and no attribute of that name.  Its vertices have a weight for the group
\* of index 0 and none for the group the component knows, of index 1.
MeshUVOnly ==
  [MeshPlain EXCEPT
     !.dvert = [i \in 1 .. MaxElems |-> <<[def_nr |-> 0, weight |-> MaxVal]>>],
     !.ldata = <<Layer("size", CD_MLOOPUV, 1)>>]

PointCloudPlain == [totpoint |-> MaxElems, pdata |-> <<>>]

PointCloudLayers ==
  [totpoint |-> MaxElems,
   pdata |-> <<Layer("Position", CD_PROP_FLOAT3, MaxElems),
               Layer("size", CD_PROP_FLOAT, MaxElems)>>]

InitialComponents ==
  {[component |-> "MeshComponent", mesh_ |-> <<>>, pointcloud_ |-> <<>>,
    vertex_group_names_ |-> NoGroups],
   [component |-> "MeshComponent", mesh_ |-> <<MeshPlain>>, pointcloud_ |-> <<>>,
    vertex_group_names_ |-> [n \in {"Group"} |-> 0]],
   [component |-> "MeshComponent", mesh_ |-> <<MeshLayers>>, pointcloud_ |-> <<>>,
    vertex_group_names_ |-> [n \in {"Group", "size"} |-> IF n = "Group" THEN 0 ELSE 1]],
   [component |-> "MeshComponent", mesh_ |-> <<MeshShadowed>>, pointcloud_ |-> <<>>,
    vertex_group_names_ |-> [n \in {"Group"} |-> 0]],
   [component |-> "MeshComponent", mesh_ |-> <<MeshUVOnly>>, pointcloud_ |-> <<>>,
    vertex_group_names_ |-> [n \in {"Group"} |-> 1]],
   [component |-> "PointCloudComponent", mesh_ |-> <<>>, pointcloud_ |-> <<>>,
    vertex_group_names_ |-> NoGroups],
   [component |-> "PointCloudComponent", mesh_ |-> <<>>,
    pointcloud_ |-> <<PointCloudPlain>>, vertex_group_names_ |-> NoGroups],
   [component |-> "PointCloudComponent", mesh_ |-> <<>>,
    pointcloud_ |-> <<PointCloudLayers>>, vertex_group_names_ |-> NoGroups]}

Init ==
  /\ \E c \in InitialComponents :
       /\ component = c.component
       /\ mesh_ = c.mesh_
       /\ pointcloud_ = c.pointcloud_
       /\ vertex_group_names_ = c.vertex_group_names_
       /\ before = c
  /\ op = "idle"
  /\ args = NoArgs
  /\ ret = FALSE
  /\ handle = NoAttribute
  /\ held = NoAttribute
  /\ again = FALSE
  /\ calls = 0

\* The caller is between calls (op = "idle"), or looks at what its last call
\* returned.  From there it makes the same call again with the same
\* arguments, writes through a handle it was given, or drops the result
\* and goes on (Continue); a const call changes nothing, so nothing follows
\* it but set() through the handle attribute_try_get_for_write returned.
\* calls counts the calls that are not the repeat of the one before.
Repeats(name, a) == op = name /\ args = a

CanCall(name, a) ==
  \/ op = "idle" /\ calls < MaxCalls
  \/ Repeats(name, a)

Counted(name, a) == IF Repeats(name, a) THEN calls ELSE calls + 1

\* The component after a call, and the record of the call.
Called(name, a, r, h, after) ==
  /\ before' = Self
  /\ op' = name
  /\ args' = a
  /\ ret' = r
  /\ handle' = h
  /\ held' = IF name = "set" THEN held
             ELSE IF Repeats(name, a) THEN handle
             ELSE NoAttribute
  /\ again' = Repeats(name, a)
  /\ component' = after.component
  /\ mesh_' = after.mesh_
  /\ pointcloud_' = after.pointcloud_
  /\ vertex_group_names_' = after.vertex_group_names_

TryGetForRead ==
  \E attribute_name \in Names :
    LET h == attribute_try_get_for_read(Self, attribute_name)
    IN  /\ op = "idle"
        /\ Called("attribute_try_get_for_read",
                  [NoArgs EXCEPT !.attribute_name = attribute_name],
                  h # NoAttribute, h, Self)
        /\ UNCHANGED calls

TryGetForReadTyped ==
  \E attribute_name \in Names, domain \in AttributeDomain, data_type \in DataTypes :
    LET h == attribute_try_get_for_read_typed(Self, attribute_name, domain, data_type)
    IN  /\ op = "idle"
        /\ Called("attribute_try_get_for_read_typed",
                  [NoArgs EXCEPT !.attribute_name = attribute_name, !.domain = domain,
                                 !.data_type = data_type],
                  h # NoAttribute, h, Self)
        /\ UNCHANGED calls

\* BLI_assert(attribute_domain_with_type_supported(domain, data_type)) is the
\* precondition of the call.
GetForRead ==
  \E attribute_name \in Names, domain \in AttributeDomain, data_type \in DataTypes,
     default_value \in Values :
    LET h == attribute_get_for_read(Self, attribute_name, domain, data_type,
                                    default_value)
    IN  /\ op = "idle"
        /\ attribute_domain_with_type_supported(Self, domain, data_type)
        /\ Called("attribute_get_for_read",
                  [NoArgs EXCEPT !.attribute_name = attribute_name, !.domain = domain,
                                 !.data_type = data_type, !.value = default_value],
                  h # NoAttribute, h, Self)
        /\ UNCHANGED calls

TryGetForWrite ==
  \E attribute_name \in Names :
    LET h == attribute_try_get_for_write(Self, attribute_name)
    IN  /\ op = "idle"
        /\ Called("attribute_try_get_for_write",
                  [NoArgs EXCEPT !.attribute_name = attribute_name],
                  h # NoAttribute, h, Self)
        /\ UNCHANGED calls

TryDelete ==
  \E attribute_name \in Names :
    LET a == [NoArgs EXCEPT !.attribute_name = attribute_name]
        r == attribute_try_delete(Self, attribute_name)
    IN  /\ CanCall("attribute_try_delete", a)
        /\ Called("attribute_try_delete", a, r.ret, NoAttribute, r.self)
        /\ calls' = Counted("attribute_try_delete", a)

TryCreate ==
  \E attribute_name \in Names, domain \in AttributeDomain, data_type \in DataTypes :
    LET a == [NoArgs EXCEPT !.attribute_name = attribute_name, !.domain = domain,
                            !.data_type = data_type]
        r == attribute_try_create(Self, attribute_name, domain, data_type)
    IN  /\ CanCall("attribute_try_create", a)
        /\ Called("attribute_try_create", a, r.ret, NoAttribute, r.self)
        /\ calls' = Counted("attribute_try_create", a)

\* BLI_assert(cpp_type != nullptr) is the precondition of the call.
TryEnsureForWrite ==
  \E attribute_name \in Names, domain \in AttributeDomain, data_type \in DataTypes :
    LET a == [NoArgs EXCEPT !.attribute_name = attribute_name, !.domain = domain,
                            !.data_type = data_type]
        r == attribute_try_ensure_for_write(Self, attribute_name, domain, data_type)
    IN  /\ custom_data_type_to_cpp_type(data_type) # nullptr
        /\ CanCall("attribute_try_ensure_for_write", a)
        /\ Called("attribute_try_ensure_for_write", a, r.ret # NoAttribute, r.ret,
                  r.self)
        /\ calls' = Counted("attribute_try_ensure_for_write", a)

\* set(index, value) through a write handle the caller holds: the one the
\* last call returned or, after a repeated call, the one the call before it
\* returned.
Set ==
  \E through \in {handle, held} :
    \E index \in 0 .. through.size - 1, value \in Values :
      /\ calls < MaxCalls
      /\ through.writable
      /\ Called("set", [NoArgs EXCEPT !.index = index, !.value = value], TRUE, handle,
                set_internal(Self, through, index, value))
      /\ calls' = calls + 1

\* The caller drops what the last call returned and goes on to further calls.
\* Writing through a handle is the last thing a caller does with it: after
\* set() come further set() calls only.
Continue ==
  /\ op \notin ConstCalls \cup {"idle", "set"}
  /\ calls < MaxCalls
  /\ before' = Self
  /\ op' = "idle"
  /\ args' = NoArgs
  /\ ret' = FALSE
  /\ handle' = NoAttribute
  /\ held' = NoAttribute
  /\ again' = FALSE
  /\ UNCHANGED <<component, mesh_, pointcloud_, vertex_group_names_, calls>>

Next ==
  \/ TryGetForRead
  \/ TryGetForReadTyped
  \/ GetForRead
  \/ TryGetForWrite
  \/ TryDelete
  \/ TryCreate
  \/ TryEnsureForWrite
  \/ Set
  \/ Continue

Spec == Init /\ [][Next]_vars

(***************************************************************************)
(* Properties.                                                             *)
(***************************************************************************)
\* The CustomData of a component that holds the layers of a domain.
StoreOf(self, domain) ==
  IF self.component = "MeshComponent"
    THEN CASE domain = ATTR_DOMAIN_CORNER -> "ldata"
           [] domain = ATTR_DOMAIN_VERTEX -> "vdata"
           [] domain = ATTR_DOMAIN_EDGE -> "edata"
           [] domain = ATTR_DOMAIN_POLYGON -> "pdata"
    ELSE "pdata"

Stores(self) ==
  IF self.component = "MeshComponent" THEN {"ldata", "vdata", "edata", "pdata"}
  ELSE {"pdata"}

DomainSupported(self, domain) ==
  IF self.component = "MeshComponent"
    THEN MeshComponent_attribute_domain_supported(domain)
    ELSE PointCloudComponent_attribute_domain_supported(domain)

HasGeometry(self) == Geometry(self) # <<>>

\* A layer called name, of any type.
HasLayer(layers, name) == \E k \in 1 .. Len(layers) : layers[k].name = name

\* A generic column called name: a layer of one of the attribute types.
HasColumn(layers, name) ==
  \E k \in 1 .. Len(layers) :
    layers[k].name = name /\ layers[k].type \in AttributeLayerTypes

\* The values a handle reads, index by index.
ValuesOf(self, attribute) ==
  [i \in 0 .. attribute.size - 1 |-> get_internal(self, attribute, i)]

\* C1: set(i, v) followed by get(i) on the same write handle returns v, for
\* every write handle a component hands out (a generic column, the mesh's
\* Position, a vertex-group weight attribute).
C1_SetGetRoundTrip ==
  op = "set" => get_internal(Self, handle, args.index) = args.value

\* A weight was written for a vertex that had no entry for the group.
C1_Witness ==
  /\ op = "set"
  /\ handle.class = "VertexWeight"
  /\ args.value # 0
  /\ BKE_defvert_find_index(before.mesh_[1].dvert[args.index + 1],
                            handle.dvert_index) = 0

\* C2: for a supported (domain, type), attribute_get_for_read never returns
\* an empty handle, and when the typed lookup fails the handle has the
\* requested domain and type, the size of the domain, and reads the default
\* at every index.
C2_GetForReadDefault ==
  op = "attribute_get_for_read" =>
    /\ handle # NoAttribute
    /\ attribute_try_get_for_read_typed(Self, args.attribute_name, args.domain,
                                        args.data_type) = NoAttribute
         => /\ handle.domain = args.domain
            /\ handle.cpp_type = custom_data_type_to_cpp_type(args.data_type)
            /\ handle.size = attribute_domain_size(Self, args.domain)
            /\ \A i \in 0 .. attribute_domain_size(Self, args.domain) - 1 :
                 get_internal(Self, handle, i) = args.value

\* The name exists, but on another domain; the default is not zero and the
\* domain has elements.
C2_Witness ==
  /\ op = "attribute_get_for_read"
  /\ attribute_try_get_for_read(Self, args.attribute_name) # NoAttribute
  /\ attribute_try_get_for_read(Self, args.attribute_name).domain # args.domain
  /\ args.value # DefaultValue
  /\ handle.size > 0

\* C3: attribute_try_delete("Position") returns false and leaves the
\* geometry as it was: layers, vertex groups, weights and positions.
C3_DeletePositionFails ==
  (op = "attribute_try_delete" /\ args.attribute_name = "Position") =>
    /\ ret = FALSE
    /\ Self = before

C3_Witness ==
  /\ op = "attribute_try_delete"
  /\ args.attribute_name = "Position"
  /\ HasGeometry(Self)
  /\ attribute_domain_size(Self, IF component = "MeshComponent"
                                   THEN ATTR_DOMAIN_VERTEX
                                   ELSE ATTR_DOMAIN_POINT) > 0

\* C4 as stated: on a mesh, and on a point cloud with at least one element,
\* "Position" is readable before and after attribute_try_delete("Position"),
\* with the same values.
C4_PositionAlwaysPresent ==
  (/\ op = "attribute_try_delete"
   /\ args.attribute_name = "Position"
   /\ \/ component = "MeshComponent" /\ mesh_ # <<>>
      \/ component = "PointCloudComponent" /\ pointcloud_ # <<>>
           /\ pointcloud_[1].totpoint >= 1) =>
    /\ attribute_try_get_for_read(before, "Position") # NoAttribute
    /\ attribute_try_get_for_read(Self, "Position") # NoAttribute
    /\ ValuesOf(before, attribute_try_get_for_read(before, "Position")) =
         ValuesOf(Self, attribute_try_get_for_read(Self, "Position"))

\* C4, amended: on a mesh "Position" is always readable, as a Vertex float3
\* attribute of the size of the vertex array; on a point cloud it is
\* readable exactly when the point layers hold a generic column of that
\* name; attribute_try_delete("Position") changes neither whether it is
\* readable nor the values read.
C4_PositionPresentOnMesh ==
  /\ (component = "MeshComponent" /\ mesh_ # <<>>) =>
       /\ attribute_try_get_for_read(Self, "Position") # NoAttribute
       /\ attribute_try_get_for_read(Self, "Position").domain = ATTR_DOMAIN_VERTEX
       /\ attribute_try_get_for_read(Self, "Position").cpp_type = "float3"
       /\ attribute_try_get_for_read(Self, "Position").size = mesh_[1].totvert
       /\ \A i \in 0 .. mesh_[1].totvert - 1 :
            get_internal(Self, attribute_try_get_for_read(Self, "Position"), i) =
              mesh_[1].mvert[i + 1].co
  /\ (component = "PointCloudComponent" /\ pointcloud_ # <<>>) =>
       (attribute_try_get_for_read(Self, "Position") # NoAttribute
          <=> HasColumn(pointcloud_[1].pdata, "Position"))
  /\ (op = "attribute_try_delete" /\ args.attribute_name = "Position") =>
       /\ attribute_try_get_for_read(before, "Position") =
            attribute_try_get_for_read(Self, "Position")
       /\ ValuesOf(before, attribute_try_get_for_read(before, "Position")) =
            ValuesOf(Self, attribute_try_get_for_read(Self, "Position"))

\* attribute_try_delete("Position") was called on a mesh with vertices.
C4_Witness ==
  /\ op = "attribute_try_delete"
  /\ args.attribute_name = "Position"
  /\ component = "MeshComponent"
  /\ mesh_ # <<>>
  /\ attribute_try_get_for_read(Self, "Position").size > 0

\* C5: attribute_try_create fails when a layer of that name is in the layers
\* of the target domain; on a mesh it succeeds when the name (not built-in,
\* not a vertex group) is only in the layers of other domains, (domain,
\* type) being supported: the layer is added to the target domain and the
\* layers of the other domains are left alone.
C5_CreateNameCollision ==
  (op = "attribute_try_create" /\ HasGeometry(before)
     /\ DomainSupported(before, args.domain)) =>
    LET target == StoreOf(before, args.domain)
        old == Geometry(before)[1]
        new == Geometry(Self)[1]
    IN  /\ HasLayer(old[target], args.attribute_name) => (ret = FALSE /\ Self = before)
        /\ (/\ component = "MeshComponent"
            /\ ~HasLayer(old[target], args.attribute_name)
            /\ \E other \in Stores(before) \ {target} :
                 HasLayer(old[other], args.attribute_name)
            /\ args.attribute_name # "Position"
            /\ args.attribute_name \notin DOMAIN before.vertex_group_names_
            /\ attribute_domain_with_type_supported(before, args.domain, args.data_type))
           => /\ ret = TRUE
              /\ Len(new[target]) = Len(old[target]) + 1
              /\ SubSeq(new[target], 1, Len(old[target])) = old[target]
              /\ new[target][Len(new[target])].name = args.attribute_name
              /\ new[target][Len(new[target])].type = args.data_type
              /\ \A other \in Stores(before) \ {target} : new[other] = old[other]

\* A column was created on a mesh under a name the layers of another domain
\* already hold.
C5_Witness ==
  /\ op = "attribute_try_create"
  /\ ret = TRUE
  /\ component = "MeshComponent"
  /\ \E other \in Stores(before) \ {StoreOf(before, args.domain)} :
       HasLayer(before.mesh_[1][other], args.attribute_name)

\* C6 as stated: PointCloudComponent::attribute_try_delete returns true
\* exactly when a point layer of that name existed and has been removed.
C6_PointCloudDeleteReportsRemoval ==
  (op = "attribute_try_delete" /\ component = "PointCloudComponent") =>
    (ret = TRUE <=>
       /\ before.pointcloud_ # <<>>
       /\ HasLayer(before.pointcloud_[1].pdata, args.attribute_name)
       /\ ~HasLayer(pointcloud_[1].pdata, args.attribute_name))

\* C7 as stated: MeshComponent::attribute_try_delete of a name that is not
\* built-in always returns true, and called again with the same name it
\* returns true and changes nothing.
C7_MeshDeleteAlwaysTrue ==
  (/\ op = "attribute_try_delete"
   /\ component = "MeshComponent"
   /\ args.attribute_name # "Position") =>
    /\ ret = TRUE
    /\ again => Self = before

\* C7, amended: on a component that holds a mesh,
\* MeshComponent::attribute_try_delete of a name that is not built-in
\* returns true whether or not anything has that name, and called again
\* with the same name it returns true and changes nothing; on a component
\* without a mesh it returns false and changes nothing.
C7_MeshDeleteIdempotent ==
  (/\ op = "attribute_try_delete"
   /\ component = "MeshComponent"
   /\ args.attribute_name # "Position") =>
    /\ before.mesh_ # <<>> => ret = TRUE
    /\ before.mesh_ = <<>> => (ret = FALSE /\ Self = before)
    /\ again => Self = before

\* The second of two deletes of the same name in a row, on a mesh.
C7_Witness ==
  /\ op = "attribute_try_delete"
  /\ again
  /\ ret = TRUE
  /\ component = "MeshComponent"
  /\ mesh_ # <<>>
  /\ args.attribute_name # "Position"

\* C8: after MeshComponent::attribute_try_delete returned true for a name
\* that is not built-in, no layer of any domain has the name; if the name
\* was a vertex group, no vertex has a weight for its index and the name is
\* not registered; attribute_try_get_for_read(name) is empty; layers and
\* vertex groups with other names are as before.
C8_MeshDeletePurges ==
  (/\ op = "attribute_try_delete"
   /\ component = "MeshComponent"
   /\ ret = TRUE
   /\ args.attribute_name # "Position") =>
    LET name == args.attribute_name
        old == before.mesh_[1]
        new == mesh_[1]
        was_group == name \in DOMAIN before.vertex_group_names_
        OtherName(layer) == layer.name # name
        OtherGroup(dw) == dw.def_nr # before.vertex_group_names_[name]
    IN  /\ \A store \in Stores(Self) :
             /\ ~HasLayer(new[store], name)
             /\ new[store] = SelectSeq(old[store], OtherName)
        /\ name \notin DOMAIN vertex_group_names_
        /\ \A n \in DOMAIN before.vertex_group_names_ \ {name} :
             /\ n \in DOMAIN vertex_group_names_
             /\ vertex_group_names_[n] = before.vertex_group_names_[n]
        /\ DOMAIN vertex_group_names_ \subseteq DOMAIN before.vertex_group_names_
        /\ was_group =>
             \A v \in 1 .. Len(new.dvert) :
               /\ BKE_defvert_find_index(new.dvert[v],
                                         before.vertex_group_names_[name]) = 0
               /\ new.dvert[v] = SelectSeq(old.dvert[v], OtherGroup)
        /\ ~was_group => new.dvert = old.dvert
        /\ Len(new.dvert) = Len(old.dvert)
        /\ new.mvert = old.mvert
        /\ attribute_try_get_for_read(Self, name) = NoAttribute

\* The deleted name was a vertex group with a weight on some vertex and was
\* in the layers of two domains.
C8_Witness ==
  /\ op = "attribute_try_delete"
  /\ component = "MeshComponent"
  /\ ret = TRUE
  /\ args.attribute_name \in DOMAIN before.vertex_group_names_
  /\ \E v \in 1 .. Len(before.mesh_[1].dvert) :
       BKE_defvert_find_index(before.mesh_[1].dvert[v],
                              before.vertex_group_names_[args.attribute_name]) # 0
  /\ Cardinality({store \in Stores(before) :
                    HasLayer(before.mesh_[1][store], args.attribute_name)}) >= 2

\* Whether the k-th source of the mesh lookup has the name.
C9_Source(self, name, k) ==
  CASE k = 1 -> name = "Position"
    [] k = 2 -> HasColumn(self.mesh_[1].ldata, name)
    [] k = 3 -> name \in DOMAIN self.vertex_group_names_
    [] k = 4 -> HasColumn(self.mesh_[1].vdata, name)
    [] k = 5 -> HasColumn(self.mesh_[1].edata, name)
    [] k = 6 -> HasColumn(self.mesh_[1].pdata, name)

\* The handle is the column of that name in the layers of one domain.
C9_ColumnOf(attribute, custom_data, domain, totelem, name) ==
  /\ attribute.class = "Array"
  /\ attribute.domain = domain
  /\ attribute.size = totelem
  /\ attribute.custom_data = custom_data
  /\ mesh_[1][custom_data][attribute.layer].name = name
  /\ attribute.cpp_type =
       custom_data_type_to_cpp_type(mesh_[1][custom_data][attribute.layer].type)

\* C9: MeshComponent::attribute_try_get_for_read(name) takes the first of
\* (1) built-in "Position", (2) corner column, (3) vertex group, (4) vertex
\* column, (5) edge column, (6) polygon column that has the name, and is
\* empty only when none has it or there is no mesh.
C9_MeshReadPrecedence ==
  (op = "attribute_try_get_for_read" /\ component = "MeshComponent") =>
    IF mesh_ = <<>> THEN handle = NoAttribute
    ELSE
      LET name == args.attribute_name
          found == {k \in 1 .. 6 : C9_Source(Self, name, k)}
          first == Min(found)
          mesh == mesh_[1]
      IN  IF found = {} THEN handle = NoAttribute
          ELSE /\ handle # NoAttribute
               /\ ~handle.writable
               /\ first = 1 => /\ handle.class = "DerivedArray"
                               /\ handle.domain = ATTR_DOMAIN_VERTEX
                               /\ handle.cpp_type = "float3"
                               /\ handle.size = mesh.totvert
               /\ first = 2 => C9_ColumnOf(handle, "ldata", ATTR_DOMAIN_CORNER,
                                           mesh.totloop, name)
               /\ first = 3 => /\ handle.class = "VertexWeight"
                               /\ handle.domain = ATTR_DOMAIN_VERTEX
                               /\ handle.cpp_type = "float"
                               /\ handle.size = mesh.totvert
                               /\ handle.dvert_index = vertex_group_names_[name]
               /\ first = 4 => C9_ColumnOf(handle, "vdata", ATTR_DOMAIN_VERTEX,
                                           mesh.totvert, name)
               /\ first = 5 => C9_ColumnOf(handle, "edata", ATTR_DOMAIN_EDGE,
                                           mesh.totedge, name)
               /\ first = 6 => C9_ColumnOf(handle, "pdata", ATTR_DOMAIN_POLYGON,
                                           mesh.totpoly, name)

\* The name is a corner column, a vertex group and a polygon column at once.
C9_Witness ==
  /\ op = "attribute_try_get_for_read"
  /\ component = "MeshComponent"
  /\ mesh_ # <<>>
  /\ {2, 3, 6} \subseteq {k \in 1 .. 6 : C9_Source(Self, args.attribute_name, k)}
  /\ handle.domain = ATTR_DOMAIN_CORNER

\* C10: the typed attribute_try_get_for_read returns a handle exactly when
\* (domain, type) is supported, the lookup by name finds a handle, and that
\* handle has the requested domain and the requested type; it is then the
\* very handle the lookup by name found, and the geometry is left alone.
C10_TypedLookup ==
  op = "attribute_try_get_for_read_typed" =>
    LET found == attribute_try_get_for_read(before, args.attribute_name)
    IN  /\ handle # NoAttribute <=>
             /\ attribute_domain_with_type_supported(before, args.domain, args.data_type)
             /\ found # NoAttribute
             /\ found.domain = args.domain
             /\ found.cpp_type = custom_data_type_to_cpp_type(args.data_type)
        /\ handle # NoAttribute => handle = found
        /\ Self = before

\* The name is found with the requested type, on another domain than the
\* one asked for.
C10_Witness ==
  /\ op = "attribute_try_get_for_read_typed"
  /\ handle = NoAttribute
  /\ attribute_domain_with_type_supported(Self, args.domain, args.data_type)
  /\ attribute_try_get_for_read(Self, args.attribute_name) # NoAttribute
  /\ attribute_try_get_for_read(Self, args.attribute_name).cpp_type =
       custom_data_type_to_cpp_type(args.data_type)
  /\ attribute_try_get_for_read(Self, args.attribute_name).domain # args.domain

C12_Entries(dvert, defgroup) == {k \in 1 .. Len(dvert) : dvert[k].def_nr = defgroup}

\* C12: a vertex-group weight attribute for group g reads at vertex i the
\* weight of the entry for g in the list of vertex i, and 0.0 when the list
\* has none; set(i, w) at a vertex without an entry for g adds one entry for
\* g holding w to the list of vertex i, and get(i) then returns w.
C12_VertexWeightSparse ==
  handle.class = "VertexWeight" =>
    LET g == handle.dvert_index
        dverts == mesh_[1].dvert
    IN  /\ \A i \in 0 .. handle.size - 1 :
             /\ C12_Entries(dverts[i + 1], g) = {} =>
                  get_internal(Self, handle, i) = 0
             /\ \A k \in C12_Entries(dverts[i + 1], g) :
                  get_internal(Self, handle, i) = dverts[i + 1][k].weight
        /\ (/\ op = "set"
            /\ C12_Entries(before.mesh_[1].dvert[args.index + 1], g) = {}) =>
             /\ Len(dverts[args.index + 1]) =
                  Len(before.mesh_[1].dvert[args.index + 1]) + 1
             /\ \E k \in C12_Entries(dverts[args.index + 1], g) :
                  dverts[args.index + 1][k].weight = args.value
             /\ get_internal(Self, handle, args.index) = args.value

\* A nonzero weight was written at a vertex that had entries, none of them
\* for the group.
C12_Witness ==
  /\ op = "set"
  /\ handle.class = "VertexWeight"
  /\ before.mesh_[1].dvert[args.index + 1] # <<>>
  /\ C12_Entries(before.mesh_[1].dvert[args.index + 1], handle.dvert_index) = {}
  /\ args.value # 0

\* The layers of the target domain after a create that returned true: the
\* layers before it and, after them, a layer of the requested name and type
\* with one default element per element of the domain.
C13_ColumnAdded ==
  LET store == StoreOf(Self, args.domain)
  IN  Geometry(Self)[1][store] =
        Append(Geometry(before)[1][store],
               [name |-> args.attribute_name, type |-> args.data_type,
                data |-> [i \in 1 .. attribute_domain_size(Self, args.domain) |->
                            DefaultValue]])

\* A value written at any index through attribute_try_get_for_write(name) is
\* read back at that index through a later attribute_try_get_for_read(name),
\* and every other index reads the default.
C13_WrittenThenRead ==
  LET name == args.attribute_name
      write == attribute_try_get_for_write(Self, name)
  IN  /\ write # NoAttribute
      /\ \A i \in 0 .. write.size - 1, v \in Values :
           LET written == set_internal(Self, write, i, v)
               read == attribute_try_get_for_read(written, name)
           IN  /\ read # NoAttribute
               /\ read.size = write.size
               /\ \A j \in 0 .. read.size - 1 :
                    get_internal(written, read, j) = IF j = i THEN v ELSE DefaultValue

\* On a mesh, a source that the lookup by name tries before the layers of the
\* domain has the name.
C13_Shadowed(self, name, domain) ==
  /\ self.component = "MeshComponent"
  /\ LET mesh == self.mesh_[1]
          corner == HasColumn(mesh.ldata, name)
          group == name \in DOMAIN self.vertex_group_names_
          vertex == HasColumn(mesh.vdata, name)
          edge == HasColumn(mesh.edata, name)
     IN  CASE domain = ATTR_DOMAIN_CORNER -> FALSE
           [] domain = ATTR_DOMAIN_VERTEX -> corner \/ group
           [] domain = ATTR_DOMAIN_EDGE -> corner \/ group \/ vertex
           [] domain = ATTR_DOMAIN_POLYGON -> corner \/ group \/ vertex \/ edge
           [] OTHER -> FALSE

\* C13 as stated: when attribute_try_create returns true the target domain
\* holds a new column of the requested name and type, of the length of the
\* domain and all default, and a value written through a later
\* attribute_try_get_for_write(name) is read back through a later
\* attribute_try_get_for_read(name) while the other indices read the default.
C13_CreateVisible ==
  (op = "attribute_try_create" /\ ret = TRUE) =>
    /\ C13_ColumnAdded
    /\ C13_WrittenThenRead

\* C13, amended: when attribute_try_create returns true the target domain
\* holds a new column of the requested name and type, of the length of the
\* domain and all default.  On a point cloud, and on a mesh where no source
\* the lookup tries before the target domain has the name, a value written
\* through a later attribute_try_get_for_write(name) is read back through a
\* later attribute_try_get_for_read(name) and the other indices read the
\* default; on a mesh where such a source has the name, the lookups by name
\* return that source as they did before the create.
C13_CreateVisibleUnlessShadowed ==
  (op = "attribute_try_create" /\ ret = TRUE) =>
    /\ C13_ColumnAdded
    /\ ~C13_Shadowed(before, args.attribute_name, args.domain) => C13_WrittenThenRead
    /\ C13_Shadowed(before, args.attribute_name, args.domain) =>
         /\ attribute_try_get_for_write(Self, args.attribute_name) =
              attribute_try_get_for_write(before, args.attribute_name)
         /\ attribute_try_get_for_read(Self, args.attribute_name) =
              attribute_try_get_for_read(before, args.attribute_name)

\* A column was created on a point cloud with more than one point.
C13_Witness ==
  /\ op = "attribute_try_create"
  /\ ret = TRUE
  /\ component = "PointCloudComponent"
  /\ pointcloud_[1].totpoint > 1
  /\ attribute_try_get_for_write(Self, args.attribute_name).layer =
       Len(pointcloud_[1].pdata)

\* C14: attribute_try_create returns false, and leaves the component as it
\* was, when the name is the built-in "Position", when (domain, type) is not
\* supported, when there is no geometry, and, on a mesh with domain Vertex,
\* when the name is a vertex group; in every other case it returns true
\* exactly when no layer of the target domain has the name.
C14_CreateFailureCases ==
  op = "attribute_try_create" =>
    LET name == args.attribute_name
        refused ==
          \/ attribute_is_builtin(before, name)
          \/ ~attribute_domain_with_type_supported(before, args.domain, args.data_type)
          \/ ~HasGeometry(before)
          \/ /\ component = "MeshComponent"
             /\ args.domain = ATTR_DOMAIN_VERTEX
             /\ name \in DOMAIN before.vertex_group_names_
    IN  /\ refused => ret = FALSE
        /\ ~refused =>
             (ret = TRUE <=>
                ~HasLayer(Geometry(before)[1][StoreOf(before, args.domain)], name))
        /\ ret = FALSE => Self = before

\* A create on the Vertex domain of a mesh failed for the vertex group of
\* that name alone.
C14_Witness ==
  /\ op = "attribute_try_create"
  /\ ret = FALSE
  /\ component = "MeshComponent"
  /\ mesh_ # <<>>
  /\ args.domain = ATTR_DOMAIN_VERTEX
  /\ attribute_domain_with_type_supported(Self, args.domain, args.data_type)
  /\ args.attribute_name \in DOMAIN vertex_group_names_
  /\ ~HasLayer(mesh_[1].vdata, args.attribute_name)

\* C15: from a geometry whose layer names are unique within each domain, no
\* sequence of attribute_try_create, attribute_try_delete and
\* attribute_try_ensure_for_write calls leaves two layers of one domain with
\* the same name.
C15_NamesUnique ==
  HasGeometry(Self) =>
    \A store \in Stores(Self) :
      LET layers == Geometry(Self)[1][store]
      IN  \A k1, k2 \in 1 .. Len(layers) :
            layers[k1].name = layers[k2].name => k1 = k2

\* A create was refused for a layer of that name in the target domain that
\* the lookups by name do not see.
C15_Witness ==
  /\ op = "attribute_try_create"
  /\ ret = FALSE
  /\ HasGeometry(Self)
  /\ attribute_domain_with_type_supported(Self, args.domain, args.data_type)
  /\ HasLayer(Geometry(Self)[1][StoreOf(Self, args.domain)], args.attribute_name)
  /\ ~HasColumn(Geometry(Self)[1][StoreOf(Self, args.domain)], args.attribute_name)

\* C16: in every state and for every name, attribute_try_get_for_write(name)
\* returns a handle exactly when attribute_try_get_for_read(name) does, and
\* the two handles have the same domain, type and size and read the same
\* value at every index.
C16_WriteLookupAsRead ==
  \A name \in Names :
    LET read == attribute_try_get_for_read(Self, name)
        write == attribute_try_get_for_write(Self, name)
    IN  /\ read # NoAttribute <=> write # NoAttribute
        /\ read # NoAttribute =>
             /\ write.writable /\ ~read.writable
             /\ write.domain = read.domain
             /\ write.cpp_type = read.cpp_type
             /\ write.size = read.size
             /\ ValuesOf(Self, write) = ValuesOf(Self, read)

\* attribute_try_get_for_write returned the corner column of a name that is
\* a vertex group and a polygon column as well.
C16_Witness ==
  /\ op = "attribute_try_get_for_write"
  /\ component = "MeshComponent"
  /\ handle.domain = ATTR_DOMAIN_CORNER
  /\ args.attribute_name \in DOMAIN vertex_group_names_
  /\ HasColumn(mesh_[1].pdata, args.attribute_name)
  /\ handle = [attribute_try_get_for_read(Self, args.attribute_name)
                 EXCEPT !.writable = TRUE]

\* C17: every handle returned by attribute_try_get_for_read (by name or
\* typed), attribute_try_get_for_write, attribute_get_for_read or
\* attribute_try_ensure_for_write has, when it is returned, the size
\* attribute_domain_size gives for the handle's domain, and a handle of a
\* layer views that many elements.
C17_HandleSizeIsDomainSize ==
  (/\ op \in ConstCalls \cup {"attribute_try_ensure_for_write"}
   /\ handle # NoAttribute) =>
    /\ handle.size = attribute_domain_size(Self, handle.domain)
    /\ handle.class = "Array" =>
         Len(Geometry(Self)[1][handle.custom_data][handle.layer].data) = handle.size

\* attribute_get_for_read returned the constant handle for the corners of a
\* mesh, which are fewer than its vertices.
C17_Witness ==
  /\ op = "attribute_get_for_read"
  /\ handle.class = "Constant"
  /\ component = "MeshComponent"
  /\ mesh_ # <<>>
  /\ handle.domain = ATTR_DOMAIN_CORNER
  /\ handle.size = mesh_[1].totloop
  /\ mesh_[1].totloop # mesh_[1].totvert

\* The attribute the lookup by name found before the call has another domain
\* or another type than the call asks for.
C18_Mismatched ==
  LET found == attribute_try_get_for_write(before, args.attribute_name)
  IN  /\ found # NoAttribute
      /\ \/ found.domain # args.domain
         \/ found.cpp_type # custom_data_type_to_cpp_type(args.data_type)

\* C18: a handle returned by attribute_try_ensure_for_write has the requested
\* domain and type.  When an attribute of that name that is not built-in
\* exists with another domain or type, the geometry is present and (domain,
\* type) is supported, the call deletes what has the name (the layers of that
\* name in every domain and, on a mesh, the vertex group), adds a default
\* column to the requested domain and returns the handle of that column;
\* when the mismatched attribute is the built-in "Position" the call returns
\* empty.
C18_EnsureReplacesMismatch ==
  op = "attribute_try_ensure_for_write" =>
    LET name == args.attribute_name
        cpp_type == custom_data_type_to_cpp_type(args.data_type)
        OtherName(layer) == layer.name # name
    IN  /\ handle # NoAttribute =>
             /\ handle.domain = args.domain
             /\ handle.cpp_type = cpp_type
             /\ handle.writable
        /\ (/\ C18_Mismatched
            /\ ~attribute_is_builtin(before, name)
            /\ HasGeometry(before)
            /\ attribute_domain_with_type_supported(before, args.domain,
                                                    args.data_type)) =>
             LET target == StoreOf(Self, args.domain)
                 new == Geometry(Self)[1]
                 old == Geometry(before)[1]
             IN  /\ handle # NoAttribute
                 /\ handle.class = "Array"
                 /\ handle.custom_data = target
                 /\ handle.layer = Len(new[target])
                 /\ new[target] =
                      Append(SelectSeq(old[target], OtherName),
                             [name |-> name, type |-> args.data_type,
                              data |-> [i \in 1 .. handle.size |-> DefaultValue]])
                 /\ \A store \in Stores(Self) \ {target} :
                      new[store] = SelectSeq(old[store], OtherName)
                 /\ name \notin DOMAIN vertex_group_names_
        /\ (C18_Mismatched /\ attribute_is_builtin(before, name)) =>
             /\ handle = NoAttribute
             /\ Self = before

\* The call replaced a vertex group that had layers of its name in other
\* domains by a column of the requested domain.
C18_Witness ==
  /\ op = "attribute_try_ensure_for_write"
  /\ handle # NoAttribute
  /\ C18_Mismatched
  /\ args.attribute_name \in DOMAIN before.vertex_group_names_
  /\ \E store \in Stores(before) \ {StoreOf(before, args.domain)} :
       HasLayer(before.mesh_[1][store], args.attribute_name)

\* C19: set(i, w) through a vertex-group handle for group g changes only the
\* entry for g in the list of vertex i: the lists of the other vertices and
\* the entries of vertex i for other groups are as before, and so is the
\* rest of the mesh; in every state each list has at most one entry per
\* group.  set(i, v) through the mesh's "Position" handle changes only the
\* coordinate of vertex record i.
C19_SetFrame ==
  /\ (component = "MeshComponent" /\ mesh_ # <<>>) =>
       \A v \in 1 .. Len(mesh_[1].dvert) :
         \A k1, k2 \in 1 .. Len(mesh_[1].dvert[v]) :
           mesh_[1].dvert[v][k1].def_nr = mesh_[1].dvert[v][k2].def_nr => k1 = k2
  /\ (op = "set" /\ handle.class = "VertexWeight") =>
       LET old == before.mesh_[1]
           new == mesh_[1]
           OtherGroup(dw) == dw.def_nr # handle.dvert_index
       IN  /\ \A v \in 1 .. Len(old.dvert) :
                v # args.index + 1 => new.dvert[v] = old.dvert[v]
           /\ SelectSeq(new.dvert[args.index + 1], OtherGroup) =
                SelectSeq(old.dvert[args.index + 1], OtherGroup)
           /\ [new EXCEPT !.dvert = old.dvert] = old
           /\ vertex_group_names_ = before.vertex_group_names_
  /\ (op = "set" /\ handle.class = "DerivedArray") =>
       /\ Self = [before EXCEPT !.mesh_[1].mvert[args.index + 1].co = args.value]
       /\ mesh_[1].mvert[args.index + 1].flag =
            before.mesh_[1].mvert[args.index + 1].flag

\* A weight was overwritten at a vertex that has a weight for another group
\* as well.
C19_Witness ==
  /\ op = "set"
  /\ handle.class = "VertexWeight"
  /\ Len(before.mesh_[1].dvert[args.index + 1]) = 2
  /\ Len(mesh_[1].dvert[args.index + 1]) = 2
  /\ mesh_[1].dvert # before.mesh_[1].dvert

\* A coordinate was changed through the "Position" handle.
C19_WitnessPosition ==
  /\ op = "set"
  /\ handle.class = "DerivedArray"
  /\ mesh_[1].mvert # before.mesh_[1].mvert

\* C20 as stated: when attribute_try_ensure_for_write returns an empty handle
\* the component is as it was before the call: the layers of every domain,
\* the vertex group names and the weight lists.
C20_EnsureFailureAtomic ==
  (op = "attribute_try_ensure_for_write" /\ handle = NoAttribute) => Self = before

\* After a create that returned true: the typed lookup with the arguments of
\* the create returns the handle of the layer just added, and the lookup for
\* write by name a handle of that domain and type.
C21_ReadsCreated ==
  LET name == args.attribute_name
      store == StoreOf(Self, args.domain)
      read == attribute_try_get_for_read_typed(Self, name, args.domain, args.data_type)
      write == attribute_try_get_for_write(Self, name)
  IN  /\ read # NoAttribute
      /\ read.class = "Array"
      /\ read.custom_data = store
      /\ read.layer = Len(mesh_[1][store])
      /\ write # NoAttribute
      /\ write.domain = args.domain
      /\ write.cpp_type = custom_data_type_to_cpp_type(args.data_type)

\* C21 as stated: on a mesh, when attribute_try_create(name, domain, type)
\* returns true, the typed attribute_try_get_for_read(name, domain, type)
\* that follows returns the column just created and
\* attribute_try_get_for_write(name) a handle of that domain and type.
C21_CreatedNeverShadowed ==
  (op = "attribute_try_create" /\ ret = TRUE /\ component = "MeshComponent") =>
    C21_ReadsCreated

\* C21, amended: on a mesh, when attribute_try_create(name, domain, type)
\* returns true and no source the lookup tries before the target domain
\* (corner column, vertex group, vertex column, edge column) has the name,
\* the typed attribute_try_get_for_read(name, domain, type) that follows
\* returns the column just created and attribute_try_get_for_write(name) a
\* handle of that domain and type; when such a source has the name, the
\* typed lookup is empty and attribute_try_get_for_write(name) returns that
\* source, of another domain.
C21_CreatedReadUnlessShadowed ==
  (op = "attribute_try_create" /\ ret = TRUE /\ component = "MeshComponent") =>
    /\ ~C13_Shadowed(before, args.attribute_name, args.domain) => C21_ReadsCreated
    /\ C13_Shadowed(before, args.attribute_name, args.domain) =>
         /\ attribute_try_get_for_read_typed(Self, args.attribute_name, args.domain,
                                             args.data_type) = NoAttribute
         /\ attribute_try_get_for_write(Self, args.attribute_name) # NoAttribute
         /\ attribute_try_get_for_write(Self, args.attribute_name).domain # args.domain

\* A column was created on a mesh under a name that later sources of the
\* lookup have as well, and is the one the lookups return.
C21_Witness ==
  /\ op = "attribute_try_create"
  /\ ret = TRUE
  /\ component = "MeshComponent"
  /\ C21_ReadsCreated
  /\ \E store \in Stores(Self) \ {StoreOf(Self, args.domain)} :
       HasColumn(mesh_[1][store], args.attribute_name)

\* C22: on a mesh that starts without a layer named "Position" and without
\* a vertex layer named like a vertex group, no sequence of
\* attribute_try_create, attribute_try_delete and
\* attribute_try_ensure_for_write calls leaves a layer named "Position" in
\* any domain or a vertex layer named like a registered vertex group, and no
\* call adds a name to the vertex group names.
C22_MeshNameSpace ==
  (component = "MeshComponent" /\ mesh_ # <<>>) =>
    /\ \A store \in Stores(Self) : ~HasLayer(mesh_[1][store], "Position")
    /\ \A name \in DOMAIN vertex_group_names_ : ~HasLayer(mesh_[1].vdata, name)
    /\ DOMAIN vertex_group_names_ \subseteq DOMAIN before.vertex_group_names_
    /\ \A name \in DOMAIN vertex_group_names_ :
         vertex_group_names_[name] = before.vertex_group_names_[name]

\* attribute_try_ensure_for_write replaced a vertex group by a vertex column
\* of its name.
C22_Witness ==
  /\ op = "attribute_try_ensure_for_write"
  /\ component = "MeshComponent"
  /\ args.domain = ATTR_DOMAIN_VERTEX
  /\ args.attribute_name \in DOMAIN before.vertex_group_names_
  /\ args.attribute_name \notin DOMAIN vertex_group_names_
  /\ HasLayer(mesh_[1].vdata, args.attribute_name)

====
